---- MODULE Spec2Model ----
(***************************************************************************)
(* PRSim: the web-served roleplay chatbot (src/main.py) and its chat       *)
(* session logic (src/gemini_chat_service.py).                             *)
(*                                                                         *)
(* Texts that the code inspects character by character (goal questions and *)
(* the human's messages) are sequences of one-character strings, so that   *)
(* lower(), split() and the substring test are computed as Python computes *)
(* them; oracle replies, which share chat_history with them, are too.      *)
(* Persona name, backstory and tone, which the code only forwards, are     *)
(* plain strings.  The alphabet is ASCII.                                  *)
(*                                                                         *)
(* The FastAPI handlers are coroutines on one event loop: a handler runs   *)
(* atomically up to its only suspension point, the awaited oracle call     *)
(* generate_content_async, and again atomically from the oracle's answer   *)
(* to its return.  GeminiChatSession objects live on a heap (sessions);    *)
(* the registry chat_sessions maps a session id to a heap index, and a     *)
(* suspended handler keeps the index of the object it works on.            *)
(*                                                                         *)
(* Specifications: Spec is the server with two client sessions;            *)
(* MalformedSpec is the server with one session, requests naming scenario  *)
(* records that lack a field, and an oracle that may answer without text;  *)
(* StoreSpec is the scenario store with its document replaced from outside *)
(* the process; SequentialSpec is the server with clients that send a chat *)
(* request only when the session's previous request has been answered;     *)
(* TestSpec drives the session class directly.                             *)
(***************************************************************************)
EXTENDS Naturals, Sequences, FiniteSets

VARIABLES
    GOOGLE_API_KEY,   \* TRUE iff the credential is set (gemini_chat_service.py:12)
    scenarios_file,   \* content of scenarios.json: a sequence of scenario records
    scenarios_data,   \* main.py:35, scenario id -> scenario record
    chat_sessions,    \* main.py:32, session id -> index into sessions
    sessions,         \* heap of GeminiChatSession objects, in order of construction
    pending,          \* handlers suspended in the awaited oracle call
    nreq,             \* number of requests received so far
    lastRet,          \* the most recently completed request and what it returned
    probe,            \* a session driven directly, as by the module's own test
    chatbot           \* the Chatbot of Tools/chatbot_simulator.py and its loop position

vars == <<GOOGLE_API_KEY, scenarios_file, scenarios_data, chat_sessions,
          sessions, pending, nreq, lastRet, probe, chatbot>>

(***************************************************************************)
(* Bounds of the model.                                                    *)
(***************************************************************************)
MaxRequests == 3
MaxPending == 2
MaxQuestionLen == 5
MaxTextLen == 4

(***************************************************************************)
(* Python string primitives used by _update_goal_status.                   *)
(***************************************************************************)
UpperCase == <<"A","B","C","D","E","F","G","H","I","J","K","L","M",
               "N","O","P","Q","R","S","T","U","V","W","X","Y","Z">>
LowerCase == <<"a","b","c","d","e","f","g","h","i","j","k","l","m",
               "n","o","p","q","r","s","t","u","v","w","x","y","z">>
Whitespace == {" ", "\t", "\n", "\r"}

\* the lower-case form of each upper-case letter
LowerOf ==
    [c \in {UpperCase[k] : k \in 1..26} |->
        LowerCase[CHOOSE k \in 1..26 : UpperCase[k] = c]]

\* str.lower() on one character
lower_char(c) == IF c \in DOMAIN LowerOf THEN LowerOf[c] ELSE c

\* str.lower()
lower(s) == [k \in 1..Len(s) |-> lower_char(s[k])]

\* str.split() without arguments: maximal runs of non-whitespace characters
RECURSIVE SplitAcc(_, _, _, _)
SplitAcc(s, k, cur, acc) ==
    IF k > Len(s)
    THEN IF cur = <<>> THEN acc ELSE Append(acc, cur)
    ELSE IF s[k] \in Whitespace
         THEN SplitAcc(s, k + 1, <<>>, IF cur = <<>> THEN acc ELSE Append(acc, cur))
         ELSE SplitAcc(s, k + 1, Append(cur, s[k]), acc)

split(s) == SplitAcc(s, 1, <<>>, <<>>)

\* the Python operator  sub in s  on strings
str_in(sub, s) ==
    \E off \in 0..Len(s) :
        /\ off + Len(sub) <= Len(s)
        /\ SubSeq(s, off + 1, off + Len(sub)) = sub

(***************************************************************************)
(* Inputs: goal questions, human messages, scenario records, identifiers.  *)
(***************************************************************************)
\* "What is the refund policy?"
Q_refund == <<"W","h","a","t"," ","i","s"," ","t","h","e"," ","r","e","f","u","n","d"," ","p","o","l","i","c","y","?">>
\* "How long is the warranty?"
Q_warranty == <<"H","o","w"," ","l","o","n","g"," ","i","s"," ","t","h","e"," ","w","a","r","r","a","n","t","y","?">>
\* "Why so?": none of its words is longer than 3 characters
Q_short == <<"W","h","y"," ","s","o","?">>
\* "the  Warranty?\tnow": words separated by a run of blanks and by a tab
Q_tabbed == <<"t","h","e"," "," ","W","a","r","r","a","n","t","y","?","\t","n","o","w">>

\* "Our refund policy allows 30 days"
M_refund == <<"O","u","r"," ","r","e","f","u","n","d"," ","p","o","l","i","c","y"," ","a","l","l","o","w","s"," ","3","0"," ","d","a","y","s">>
\* "WARRANTY? Refunds too"
M_warranty == <<"W","A","R","R","A","N","T","Y","?"," ","R","e","f","u","n","d","s"," ","t","o","o">>
Messages == {M_refund, M_warranty}

ChatActor(name, goals) ==
    [customerName |-> name, backstory |-> "story of " \o name, tone |-> "upset",
     goalQuestions |-> goals]

Scenario(id, name, goals) ==
    [id |-> id, title |-> "title " \o id, initialFacts |-> "facts",
     chatActor |-> ChatActor(name, goals)]

Sc_refund   == Scenario("refund", "Alex", <<Q_refund, Q_warranty>>)
Sc_none     == Scenario("none", "Nico", <<>>)
\* a record posted to /add_scenario under an id that is already in use
Sc_refund2  == Scenario("refund", "Dana", <<Q_short, Q_tabbed, Q_refund>>)

\* hand-written records of scenarios.json that lack a field the code reads:
\* one without chatActor, one whose chatActor has no tone
Sc_nochat   == [id |-> "nochat", title |-> "title nochat", initialFacts |-> "facts"]
Sc_notone   ==
    [id |-> "notone", title |-> "title notone", initialFacts |-> "facts",
     chatActor |-> [customerName |-> "Toni", backstory |-> "story of Toni",
                    goalQuestions |-> <<Q_short>>]]
\* a record without id
Sc_noid     == [title |-> "title", initialFacts |-> "facts",
                chatActor |-> ChatActor("Ida", <<>>)]

\* scenarios.json as the process finds it: a JSON list of records, or a file
\* that json.load rejects, or no file
Document(records) == [state |-> "ok", records |-> records]
InvalidJson == [state |-> "invalid", records |-> <<>>]
MissingFile == [state |-> "missing", records |-> <<>>]

InitialFile == Document(<<Sc_refund, Sc_none, Sc_nochat, Sc_notone>>)
NewScenarios == {Sc_refund2}

SessionIds == {"s1", "s2"}
\* "ghost" is the id of no scenario
ScenarioIds == {"refund", "none", "ghost"}
\* the ids of the records that lack a field
MalformedIds == {"nochat", "notone"}

\* "Hello, I have a problem."
T_hello ==
    <<"H","e","l","l","o",","," ","I"," ","h","a","v","e"," ","a"," ","p","r",
      "o","b","l","e","m",".">>
\* texts the oracle may answer with
OracleTexts == {T_hello}
\* what one oracle call does: it answers with a response that has a text,
\* or generate_content_async raises
OracleRaises == [ok |-> FALSE, has_text |-> FALSE, text |-> <<>>]
OracleOutcomes ==
    [ok : {TRUE}, has_text : {TRUE}, text : OracleTexts] \cup {OracleRaises}
\* it answers with a response object that has no text
OracleNoText == [ok |-> TRUE, has_text |-> FALSE, text |-> <<>>]

\* exceptions, as far as the handlers tell them apart
NoError == [type |-> "none", status_code |-> 0, detail |-> ""]
HTTPException(status_code, detail) ==
    [type |-> "HTTPException", status_code |-> status_code, detail |-> detail]
KeyError(key) == [type |-> "KeyError", status_code |-> 0, detail |-> key]
FileNotFoundError == [type |-> "FileNotFoundError", status_code |-> 0, detail |-> ""]
JSONDecodeError == [type |-> "JSONDecodeError", status_code |-> 0, detail |-> ""]

(***************************************************************************)
(* class GeminiChatSession (src/gemini_chat_service.py).                   *)
(***************************************************************************)
\* "AI service is not available (API key missing)."
NO_KEY_TEXT ==
    <<"A","I"," ","s","e","r","v","i","c","e"," ","i","s"," ","n","o","t"," ",
      "a","v","a","i","l","a","b","l","e"," ","(","A","P","I"," ","k","e","y",
      " ","m","i","s","s","i","n","g",")",".">>
\* "I'm sorry, I'm having trouble connecting to the AI right now. Please try again later."
API_ERROR_TEXT ==
    <<"I","'","m"," ","s","o","r","r","y",","," ","I","'","m"," ","h","a","v",
      "i","n","g"," ","t","r","o","u","b","l","e"," ","c","o","n","n","e","c",
      "t","i","n","g"," ","t","o"," ","t","h","e"," ","A","I"," ","r","i","g",
      "h","t"," ","n","o","w","."," ","P","l","e","a","s","e"," ","t","r","y",
      " ","a","g","a","i","n"," ","l","a","t","e","r",".">>

CUSTOMER_SERVICE == "Customer Service"

\* __init__ reads four keys of chat_actor, in this order
InitKeys == <<"customerName", "backstory", "tone", "goalQuestions">>

\* the KeyError __init__ raises on chat_actor, if any: the first key it misses
init_raises(chat_actor) ==
    LET missing == {k \in 1..Len(InitKeys) : InitKeys[k] \notin DOMAIN chat_actor}
    IN  IF missing = {} THEN NoError
        ELSE KeyError(InitKeys[CHOOSE k \in missing : \A j \in missing : k <= j])

\* __init__: the object a constructor call yields
GeminiChatSession(session_id, chat_actor) ==
    [session_id |-> session_id,
     name |-> chat_actor.customerName,
     backstory |-> chat_actor.backstory,
     tone |-> chat_actor.tone,
     goal_questions |-> chat_actor.goalQuestions,
     goals_answered |-> [k \in 1..Len(chat_actor.goalQuestions) |-> FALSE],
     chat_history |-> <<>>,
     current_question_index |-> 0,
     asked_questions |-> {}]

\* the opening prompt of start_new_chat_session: backstory and tone, no human turn
initial_prompt(self) ==
    [kind |-> "initial", name |-> "", backstory |-> self.backstory,
     goal_questions |-> <<>>, tone |-> self.tone, history |-> <<>>,
     last |-> <<>>, directive |-> [action |-> "start", question |-> <<>>]]

\* as _call_gemini_api, but a failed oracle call is not caught
call_gemini_api_uncaught(outcome) ==
    IF ~GOOGLE_API_KEY
    THEN [raised |-> FALSE, text |-> NO_KEY_TEXT]
    ELSE IF outcome.ok /\ outcome.has_text
         THEN [raised |-> FALSE, text |-> outcome.text]
         ELSE [raised |-> TRUE, text |-> <<>>]

\* as _call_gemini_api, but the credential is not looked at
call_gemini_api_keyless(outcome) ==
    IF outcome.ok /\ outcome.has_text
    THEN [raised |-> FALSE, text |-> outcome.text]
    ELSE [raised |-> FALSE, text |-> API_ERROR_TEXT]

\* _call_gemini_api from the point where the oracle call has ended with
\* `outcome`: the text it returns and whether it raises to its caller.
\* Without the credential it returns before any oracle call.  Reading the
\* text of a response that has none raises inside the same try block.
_call_gemini_api(outcome) ==
    IF ~GOOGLE_API_KEY
    THEN [raised |-> FALSE, text |-> NO_KEY_TEXT]
    ELSE IF outcome.ok /\ outcome.has_text
         THEN [raised |-> FALSE, text |-> outcome.text]
         ELSE [raised |-> FALSE, text |-> API_ERROR_TEXT]

\* as keywords, but words of any length take part in the match
keywords_unfiltered(goal_q) ==
    LET words == split(lower(goal_q))
    IN  {words[k] : k \in 1..Len(words)}

\* as keywords, but the question is split without being lower-cased
keywords_case_kept(goal_q) ==
    LET words == split(goal_q)
    IN  {words[k] : k \in {j \in 1..Len(words) : Len(words[j]) > 3}}

\* the keywords of one goal question that take part in the match
keywords(goal_q) ==
    LET words == split(lower(goal_q))
    IN  {words[k] : k \in {j \in 1..Len(words) : Len(words[j]) > 3}}

\* any(keyword in response.lower() for keyword in keywords if len(keyword) > 3)
keyword_hit(goal_q, customer_service_response) ==
    \E kw \in keywords(goal_q) : str_in(kw, lower(customer_service_response))

\* as _update_goal_status, but a flag is assigned the outcome of the match
\* whether or not it was set
update_goal_status_unguarded(self, customer_service_response) ==
    [k \in 1..Len(self.goal_questions) |->
        keyword_hit(self.goal_questions[k], customer_service_response)]

\* as _update_goal_status, but a match appends True instead of assigning it
update_goal_status_appending(self, customer_service_response) ==
    IF \E k \in 1..Len(self.goal_questions) :
          /\ ~self.goals_answered[k]
          /\ keyword_hit(self.goal_questions[k], customer_service_response)
    THEN Append(self.goals_answered, TRUE)
    ELSE self.goals_answered

\* as _update_goal_status, but a match of any open question sets every flag
update_goal_status_any(self, customer_service_response) ==
    [k \in 1..Len(self.goal_questions) |->
        \/ self.goals_answered[k]
        \/ \E j \in 1..Len(self.goal_questions) :
              /\ ~self.goals_answered[j]
              /\ keyword_hit(self.goal_questions[j], customer_service_response)]

\* _update_goal_status: the new goals_answered list
_update_goal_status(self, customer_service_response) ==
    [k \in 1..Len(self.goal_questions) |->
        IF ~self.goals_answered[k]
        THEN keyword_hit(self.goal_questions[k], customer_service_response)
        ELSE self.goals_answered[k]]

\* unanswered_goals: the questions whose flag is not set, in order
RECURSIVE unanswered_from(_, _)
unanswered_from(self, k) ==
    IF k > Len(self.goals_answered)
    THEN <<>>
    ELSE IF ~self.goals_answered[k]
         THEN <<self.goal_questions[k]>> \o unanswered_from(self, k + 1)
         ELSE unanswered_from(self, k + 1)

\* as unanswered_goals, but with the test of the flag inverted
RECURSIVE answered_from(_, _)
answered_from(self, k) ==
    IF k > Len(self.goals_answered)
    THEN <<>>
    ELSE IF self.goals_answered[k]
         THEN <<self.goal_questions[k]>> \o answered_from(self, k + 1)
         ELSE answered_from(self, k + 1)

unanswered_goals_inverted(self) == answered_from(self, 1)

unanswered_goals(self) == unanswered_from(self, 1)

\* the indices (from 0, as in Python) the for loop visits before it breaks:
\* the first index whose flag is not set, if there is one
first_unanswered(self) ==
    {k \in 0..(Len(self.goals_answered) - 1) :
        /\ ~self.goals_answered[k + 1]
        /\ \A j \in 0..(k - 1) : self.goals_answered[j + 1]}

Ask(self, idx) == [action |-> "ask", question |-> self.goal_questions[idx + 1]]
Closing == [action |-> "closing", question |-> <<>>]
\* the for loop's else clause: "You have asked all your questions, but are
\* you satisfied with the answers? ..."
Satisfied == [action |-> "satisfied", question |-> <<>>]

\* as guidance, but the else branch moves the pointer one past the goal it
\* asks
guidance_overshooting(self) ==
    IF unanswered_goals(self) /= <<>>
    THEN IF /\ self.current_question_index < Len(self.goal_questions)
            /\ ~self.goals_answered[self.current_question_index + 1]
         THEN [directive |-> Ask(self, self.current_question_index),
               current_question_index |-> self.current_question_index]
         ELSE IF first_unanswered(self) /= {}
              THEN LET i == CHOOSE k \in first_unanswered(self) : TRUE
                   IN  [directive |-> Ask(self, i), current_question_index |-> i + 1]
              ELSE [directive |-> Satisfied,
                    current_question_index |-> self.current_question_index]
    ELSE [directive |-> Closing,
          current_question_index |-> self.current_question_index]

\* as guidance, but the question asked is that of the last unanswered goal
guidance_last_unmet(self) ==
    IF unanswered_goals(self) /= <<>>
    THEN LET open == {k \in 0..(Len(self.goals_answered) - 1) :
                         ~self.goals_answered[k + 1]}
             i == CHOOSE k \in open : \A j \in open : j <= k
         IN  [directive |-> Ask(self, i),
              current_question_index |-> self.current_question_index]
    ELSE [directive |-> Closing,
          current_question_index |-> self.current_question_index]

\* as guidance, but the else branch asks the next unanswered question
\* without moving the pointer to it
guidance_stale_cursor(self) ==
    IF unanswered_goals(self) /= <<>>
    THEN IF /\ self.current_question_index < Len(self.goal_questions)
            /\ ~self.goals_answered[self.current_question_index + 1]
         THEN [directive |-> Ask(self, self.current_question_index),
               current_question_index |-> self.current_question_index]
         ELSE IF first_unanswered(self) /= {}
              THEN LET i == CHOOSE k \in first_unanswered(self) : TRUE
                   IN  [directive |-> Ask(self, i),
                        current_question_index |-> self.current_question_index]
              ELSE [directive |-> Satisfied,
                    current_question_index |-> self.current_question_index]
    ELSE [directive |-> Closing,
          current_question_index |-> self.current_question_index]

\* as guidance, but the closing branch rewinds the pointer
guidance_rewinding(self) ==
    IF unanswered_goals(self) /= <<>>
    THEN IF /\ self.current_question_index < Len(self.goal_questions)
            /\ ~self.goals_answered[self.current_question_index + 1]
         THEN [directive |-> Ask(self, self.current_question_index),
               current_question_index |-> self.current_question_index]
         ELSE IF first_unanswered(self) /= {}
              THEN LET i == CHOOSE k \in first_unanswered(self) : TRUE
                   IN  [directive |-> Ask(self, i), current_question_index |-> i]
              ELSE [directive |-> Satisfied,
                    current_question_index |-> self.current_question_index]
    ELSE [directive |-> Closing, current_question_index |-> 0]

\* the guidance part of _construct_prompt: the directive appended to the prompt
\* and the value current_question_index has afterwards
guidance(self) ==
    IF unanswered_goals(self) /= <<>>
    THEN IF /\ self.current_question_index < Len(self.goal_questions)
            /\ ~self.goals_answered[self.current_question_index + 1]
         THEN [directive |-> Ask(self, self.current_question_index),
               current_question_index |-> self.current_question_index]
         ELSE IF first_unanswered(self) /= {}
              THEN LET i == CHOOSE k \in first_unanswered(self) : TRUE
                   IN  [directive |-> Ask(self, i), current_question_index |-> i]
              ELSE [directive |-> Satisfied,
                    current_question_index |-> self.current_question_index]
    ELSE [directive |-> Closing,
          current_question_index |-> self.current_question_index]

\* as _construct_prompt, but the history part ends with the last reply of
\* the persona: human turns not yet answered are left out
construct_prompt_answered_only(self, last_customer_service_response) ==
    LET g == guidance(self)
        replies == {k \in 1..Len(self.chat_history) :
                       self.chat_history[k].role = self.name}
        answered == {k \in 1..Len(self.chat_history) : \E j \in replies : k <= j}
    IN  [prompt |->
            [kind |-> "turn", name |-> self.name, backstory |-> self.backstory,
             goal_questions |-> self.goal_questions, tone |-> self.tone,
             history |-> [k \in answered |-> self.chat_history[k]],
             last |-> last_customer_service_response,
             directive |-> g.directive],
         self |-> [self EXCEPT !.current_question_index = g.current_question_index]]

\* as _construct_prompt, but the pointer is moved on after every prompt, as
\* the console simulator does
construct_prompt_advancing(self, last_customer_service_response) ==
    LET g == guidance(self)
    IN  [prompt |->
            [kind |-> "turn", name |-> self.name, backstory |-> self.backstory,
             goal_questions |-> self.goal_questions, tone |-> self.tone,
             history |-> self.chat_history,
             last |-> last_customer_service_response,
             directive |-> g.directive],
         self |-> [self EXCEPT !.current_question_index =
                                   g.current_question_index + 1]]

\* _construct_prompt: the prompt text, part by part, and the session after it
_construct_prompt(self, last_customer_service_response) ==
    LET g == guidance(self)
    IN  [prompt |->
            [kind |-> "turn", name |-> self.name, backstory |-> self.backstory,
             goal_questions |-> self.goal_questions, tone |-> self.tone,
             history |-> self.chat_history,
             last |-> last_customer_service_response,
             directive |-> g.directive],
         self |-> [self EXCEPT !.current_question_index = g.current_question_index]]

\* send_message up to the awaited oracle call (steps 1 to 3)
send_message_begin(self, customer_service_response) ==
    LET s1 == [self EXCEPT !.chat_history =
                   Append(@, [role |-> CUSTOMER_SERVICE,
                              text |-> customer_service_response])]
        s2 == [s1 EXCEPT !.goals_answered =
                   _update_goal_status(s1, customer_service_response)]
    IN  _construct_prompt(s2, customer_service_response)

\* as send_message_end, but a fallback text is returned without being
\* appended to the transcript
send_message_end_skipping(self, ai_customer_message) ==
    IF ai_customer_message \in {API_ERROR_TEXT, NO_KEY_TEXT}
    THEN self
    ELSE [self EXCEPT !.chat_history =
              Append(@, [role |-> self.name, text |-> ai_customer_message])]

\* as send_message_end, but the flags are cleared when the reply is the
\* fallback text of a failed oracle call
send_message_end_clearing(self, ai_customer_message) ==
    [self EXCEPT
        !.chat_history = Append(@, [role |-> self.name, text |-> ai_customer_message]),
        !.goals_answered = IF ai_customer_message = API_ERROR_TEXT
                           THEN [k \in 1..Len(@) |-> FALSE]
                           ELSE @]

\* send_message from the oracle's answer on (step 5): the session afterwards
send_message_end(self, ai_customer_message) ==
    [self EXCEPT !.chat_history =
        Append(@, [role |-> self.name, text |-> ai_customer_message])]

\* as start_new_chat_session_end, but the reply is returned without being
\* appended to the transcript
start_new_chat_session_end_unrecorded(self, initial_response) == self

\* start_new_chat_session from the oracle's answer on: the session afterwards
start_new_chat_session_end(self, initial_response) ==
    [self EXCEPT !.chat_history =
        Append(@, [role |-> self.name, text |-> initial_response])]

(***************************************************************************)
(* Feedback (get_feedback_from_model, src/gemini_chat_service.py).         *)
(***************************************************************************)
\* "Unable to provide feedback: Gemini API key is not configured."
FEEDBACK_NO_KEY_TEXT ==
    <<"U","n","a","b","l","e"," ","t","o"," ","p","r","o","v","i","d","e"," ",
      "f","e","e","d","b","a","c","k",":"," ","G","e","m","i","n","i"," ","A",
      "P","I"," ","k","e","y"," ","i","s"," ","n","o","t"," ","c","o","n","f",
      "i","g","u","r","e","d",".">>
\* "An error occurred while communicating with the AI model."
FEEDBACK_ERROR_TEXT ==
    <<"A","n"," ","e","r","r","o","r"," ","o","c","c","u","r","r","e","d"," ",
      "w","h","i","l","e"," ","c","o","m","m","u","n","i","c","a","t","i","n",
      "g"," ","w","i","t","h"," ","t","h","e"," ","A","I"," ","m","o","d","e",
      "l",".">>

\* "Failed to get a valid response from the AI model."
FEEDBACK_NO_TEXT ==
    <<"F","a","i","l","e","d"," ","t","o"," ","g","e","t"," ","a"," ","v",
      "a","l","i","d"," ","r","e","s","p","o","n","s","e"," ","f","r","o",
      "m"," ","t","h","e"," ","A","I"," ","m","o","d","e","l",".">>

\* the transcript a client posts to /feedback
ClientHistory ==
    <<[sender |-> "bot", text |-> T_hello], [sender |-> "user", text |-> M_refund]>>

\* the evaluation prompt: scenario details, the transcript line by line, and
\* the request for the four-section critique
feedback_prompt(history, scenario_details) ==
    LET customer_details == scenario_details.chatActor
        sender_label(message) ==
            IF message.sender = "user"
            THEN "User (Customer Service)"
            ELSE customer_details.customerName \o " (Customer Bot)"
    IN  [kind |-> "feedback", name |-> customer_details.customerName,
         backstory |-> customer_details.backstory,
         goal_questions |-> customer_details.goalQuestions,
         tone |-> customer_details.tone,
         history |-> [k \in 1..Len(history) |->
                         [role |-> sender_label(history[k]), text |-> history[k].text]],
         last |-> <<>>,
         directive |-> [action |-> "feedback", question |-> <<>>]]

\* the KeyError the assembly of the evaluation prompt raises, if any: it
\* reads the same four keys of chatActor, outside any try block
feedback_prompt_raises(scenario_details) == init_raises(scenario_details.chatActor)

\* str.split(sep) for a one-character separator: the pieces between
\* separators, empty ones included
RECURSIVE SplitOnAcc(_, _, _, _, _)
SplitOnAcc(s, sep, k, cur, acc) ==
    IF k > Len(s)
    THEN Append(acc, cur)
    ELSE IF s[k] = sep
         THEN SplitOnAcc(s, sep, k + 1, <<>>, Append(acc, cur))
         ELSE SplitOnAcc(s, sep, k + 1, Append(cur, s[k]), acc)

split_on(s, sep) == SplitOnAcc(s, sep, 1, <<>>, <<>>)

\* str.strip()
strip(s) ==
    LET inner == {k \in 1..Len(s) : s[k] \notin Whitespace}
    IN  IF inner = {} THEN <<>>
        ELSE SubSeq(s, CHOOSE k \in inner : \A j \in inner : k <= j,
                       CHOOSE k \in inner : \A j \in inner : j <= k)

\* sep.join(lines)
RECURSIVE join(_, _)
join(sep, lines) ==
    IF lines = <<>> THEN <<>>
    ELSE IF Len(lines) = 1 THEN lines[1]
         ELSE lines[1] \o sep \o join(sep, Tail(lines))

\* '\n'.join(line.strip() for line in response.text.split('.')): the value
\* formatted_feedback has before it is assigned response.text
sentences_on_lines(text) ==
    LET lines == split_on(text, ".")
    IN  join(<<"\n">>, [k \in 1..Len(lines) |-> strip(lines[k])])

\* as get_feedback_from_model, but the text is returned as first formatted
get_feedback_from_model_formatted(outcome) ==
    IF ~GOOGLE_API_KEY
    THEN FEEDBACK_NO_KEY_TEXT
    ELSE IF outcome.ok
         THEN IF outcome.has_text
              THEN sentences_on_lines(outcome.text)
              ELSE FEEDBACK_NO_TEXT
         ELSE FEEDBACK_ERROR_TEXT

\* get_feedback_from_model from the point where the oracle call has ended
\* with `outcome` (without the credential: before any oracle call).  The
\* text is first formatted line by line and then assigned the response's
\* text again, which is what is returned.
get_feedback_from_model(outcome) ==
    IF ~GOOGLE_API_KEY
    THEN FEEDBACK_NO_KEY_TEXT
    ELSE IF outcome.ok
         THEN IF outcome.has_text
              THEN LET formatted_feedback == sentences_on_lines(outcome.text)
                   IN  outcome.text
              ELSE FEEDBACK_NO_TEXT
         ELSE FEEDBACK_ERROR_TEXT

(***************************************************************************)
(* Scenario store (src/main.py).                                           *)
(***************************************************************************)
\* the mapping after  scenarios_data[scenario['id']] = scenario  has run for
\* the first n records of the list, starting from the cleared mapping: a later
\* record replaces an earlier one with the same id
populated(scenarios_list, n) ==
    LET ids == {scenarios_list[k].id : k \in 1..n}
        last(id) == CHOOSE k \in 1..n :
                        /\ scenarios_list[k].id = id
                        /\ \A j \in (k + 1)..n : scenarios_list[j].id /= id
    IN  [id \in ids |-> scenarios_list[last(id)]]

\* the records the loop of reload_scenarios stores before it ends: all of
\* them, or those before the first record without id
stored_before_KeyError(scenarios_list) ==
    LET noid == {k \in 1..Len(scenarios_list) : "id" \notin DOMAIN scenarios_list[k]}
    IN  IF noid = {} THEN Len(scenarios_list)
        ELSE (CHOOSE k \in noid : \A j \in noid : k <= j) - 1

\* reload_scenarios on scenarios.json being `file` and the mapping being
\* `data`: the mapping afterwards and the exception that leaves the function.
\* A missing or invalid file is reported and the mapping kept; otherwise the
\* mapping is cleared and populated record by record, and a record without
\* id raises KeyError, which no except clause of the function catches.
reload_scenarios(file, data) ==
    IF file.state /= "ok"
    THEN [scenarios_data |-> data, raised |-> NoError]
    ELSE LET n == stored_before_KeyError(file.records)
         IN  [scenarios_data |-> populated(file.records, n),
              raised |-> IF n = Len(file.records) THEN NoError ELSE KeyError("id")]

(***************************************************************************)
(* Requests.  A request record carries what the handler holds while it is  *)
(* suspended, and history values the properties refer to: the flags before *)
(* the call (before) and at prompt assembly (at_prompt), and how often the *)
(* handler has called generate_content_async (oracle_calls).               *)
(***************************************************************************)
NoPrompt ==
    [kind |-> "none", name |-> "", backstory |-> "", goal_questions |-> <<>>,
     tone |-> "", history |-> <<>>, last |-> <<>>,
     directive |-> [action |-> "none", question |-> <<>>]]

Request(id, kind, sid, obj, text, before, at_prompt, prompt) ==
    [id |-> id, kind |-> kind, session_id |-> sid, obj |-> obj, text |-> text,
     before |-> before, at_prompt |-> at_prompt, prompt |-> prompt,
     oracle_calls |-> 0]

\* what a completed request returned: the handler's HTTP status and, when a
\* session method ran, its return value and whether it raised
Returned(req, oracle, raised, ai_response, goals_answered, status) ==
    [req |-> req, oracle |-> oracle, raised |-> raised,
     ai_response |-> ai_response, goals_answered |-> goals_answered,
     status |-> status, error |-> NoError]

NoRequest == Request(0, "none", "", 0, <<>>, <<>>, <<>>, NoPrompt)
NoReturn == Returned(NoRequest, "none", FALSE, <<>>, <<>>, 0)

\* the answer of a handler that called no session method: its status and the
\* exception the handler ended with, which the response's detail reports
HttpReply(id, kind, sid, status, error) ==
    [Returned(Request(id, kind, sid, 0, <<>>, <<>>, <<>>, NoPrompt),
              "none", FALSE, <<>>, <<>>, status) EXCEPT !.error = error]

\* how the oracle call of a request ended
OracleTag(outcome) ==
    IF ~GOOGLE_API_KEY THEN "nokey"
    ELSE IF ~outcome.ok THEN "fail"
         ELSE IF outcome.has_text THEN "ok" ELSE "notext"

\* The handler of req from the end of its oracle call to its return, on the
\* heap hp.  start_chat and chat: the session method appends the reply and
\* returns it with the flags; if _call_gemini_api raised, the method raises
\* at the await and the handler's except clause answers 500.  feedback: the
\* text of get_feedback_from_model is returned; no session is involved.
Finish(hp, req, outcome) ==
    IF req.kind = "feedback"
    THEN [sessions |-> hp,
          ret |-> Returned(req, OracleTag(outcome), FALSE,
                           get_feedback_from_model(outcome), <<>>, 200)]
    ELSE LET api == _call_gemini_api(outcome)
             self == hp[req.obj]
             after == IF req.kind = "start_chat"
                      THEN start_new_chat_session_end(self, api.text)
                      ELSE send_message_end(self, api.text)
         IN  IF api.raised
             THEN [sessions |-> hp,
                   ret |-> Returned(req, OracleTag(outcome), TRUE, <<>>,
                                    self.goals_answered, 500)]
             ELSE [sessions |-> [hp EXCEPT ![req.obj] = after],
                   ret |-> Returned(req, OracleTag(outcome), FALSE, api.text,
                                    after.goals_answered, 200)]

\* an oracle call up to its suspension: without the credential the caller
\* returns at once and the handler runs to its end; with it the handler is
\* suspended in generate_content_async
CallOracle(hp, req) ==
    IF ~GOOGLE_API_KEY
    THEN LET f == Finish(hp, req, OracleRaises)
         IN  /\ sessions' = f.sessions
             /\ lastRet' = f.ret
             /\ pending' = pending
    ELSE /\ Cardinality(DOMAIN pending) < MaxPending
         /\ sessions' = hp
         /\ lastRet' = lastRet
         /\ pending' = [k \in DOMAIN pending \cup {req.id} |->
                           IF k = req.id
                           THEN [req EXCEPT !.oracle_calls = @ + 1]
                           ELSE pending[k]]

(***************************************************************************)
(* HTTP handlers (src/main.py).                                            *)
(***************************************************************************)
SCENARIO_NOT_FOUND == "Scenario not found."
CHATACTOR_MISSING == "Invalid scenario data. 'chatActor' key is missing."
SESSION_NOT_FOUND == "Chat session not found. Please start a new chat."
INVALID_SCENARIO == "Invalid scenario selected for feedback."

\* the exception raised in the try block of start_chat before the session is
\* stored, if any
start_chat_raises(scenario_id) ==
    IF scenario_id \notin DOMAIN scenarios_data
    THEN HTTPException(404, SCENARIO_NOT_FOUND)
    ELSE IF "chatActor" \notin DOMAIN scenarios_data[scenario_id]
         THEN HTTPException(400, CHATACTOR_MISSING)
         ELSE init_raises(scenarios_data[scenario_id].chatActor)

\* as start_chat_except, but an HTTPException is passed on with its own status
start_chat_except_passing(e) ==
    IF e.type = "HTTPException" THEN e.status_code ELSE 500

\* except Exception as e  of start_chat: the status it answers with, whatever
\* was raised in the try block, an HTTPException included
start_chat_except(e) == 500

\* as register, but every registered id is bound to the new session as well
register_aliasing(registry, session_id, obj) ==
    [k \in DOMAIN registry \cup {session_id} |-> obj]

\* as register, but the registry is emptied first
register_evicting(registry, session_id, obj) ==
    [k \in {session_id} |-> obj]

\* chat_sessions[request.session_id] = session
register(registry, session_id, obj) ==
    [k \in DOMAIN registry \cup {session_id} |->
        IF k = session_id THEN obj ELSE registry[k]]

\* POST /start_chat
start_chat(session_id, scenario_id) ==
    /\ nreq < MaxRequests
    /\ nreq' = nreq + 1
    /\ UNCHANGED <<GOOGLE_API_KEY, scenarios_file, scenarios_data, probe, chatbot>>
    /\ LET e == start_chat_raises(scenario_id)
       IN  IF e /= NoError
           THEN /\ lastRet' = HttpReply(nreq + 1, "start_chat", session_id,
                                        start_chat_except(e), e)
                /\ UNCHANGED <<chat_sessions, sessions, pending>>
           ELSE LET session == GeminiChatSession(session_id,
                                   scenarios_data[scenario_id].chatActor)
                    obj == Len(sessions) + 1
                    req == Request(nreq + 1, "start_chat", session_id, obj, <<>>,
                                   session.goals_answered, session.goals_answered,
                                   initial_prompt(session))
                IN  /\ chat_sessions' = register(chat_sessions, session_id, obj)
                    /\ CallOracle(Append(sessions, session), req)

\* as chat, but an unregistered session id is registered, with an empty
\* session, before the request is refused
chat_registering(session_id, message) ==
    /\ nreq < MaxRequests
    /\ nreq' = nreq + 1
    /\ UNCHANGED <<GOOGLE_API_KEY, scenarios_file, scenarios_data, probe, chatbot>>
    /\ IF session_id \notin DOMAIN chat_sessions
       THEN /\ lastRet' = HttpReply(nreq + 1, "chat", session_id, 400,
                                    HTTPException(400, SESSION_NOT_FOUND))
            /\ sessions' = Append(sessions,
                               GeminiChatSession(session_id, ChatActor("", <<>>)))
            /\ chat_sessions' = register(chat_sessions, session_id, Len(sessions) + 1)
            /\ UNCHANGED pending
       ELSE LET obj == chat_sessions[session_id]
                b == send_message_begin(sessions[obj], message)
                req == Request(nreq + 1, "chat", session_id, obj, message,
                               sessions[obj].goals_answered,
                               b.self.goals_answered, b.prompt)
            IN  /\ UNCHANGED chat_sessions
                /\ CallOracle([sessions EXCEPT ![obj] = b.self], req)

\* POST /chat
chat(session_id, message) ==
    /\ nreq < MaxRequests
    /\ nreq' = nreq + 1
    /\ UNCHANGED <<GOOGLE_API_KEY, scenarios_file, scenarios_data, chat_sessions, probe, chatbot>>
    /\ IF session_id \notin DOMAIN chat_sessions
       THEN /\ lastRet' = HttpReply(nreq + 1, "chat", session_id, 400,
                                    HTTPException(400, SESSION_NOT_FOUND))
            /\ UNCHANGED <<sessions, pending>>
       ELSE LET obj == chat_sessions[session_id]
                b == send_message_begin(sessions[obj], message)
                req == Request(nreq + 1, "chat", session_id, obj, message,
                               sessions[obj].goals_answered,
                               b.self.goals_answered, b.prompt)
            IN  CallOracle([sessions EXCEPT ![obj] = b.self], req)

\* POST /feedback
feedback_endpoint(scenario_id, history) ==
    /\ nreq < MaxRequests
    /\ nreq' = nreq + 1
    /\ UNCHANGED <<GOOGLE_API_KEY, scenarios_file, scenarios_data, chat_sessions, probe, chatbot>>
    /\ IF scenario_id \notin DOMAIN scenarios_data
       THEN /\ lastRet' = HttpReply(nreq + 1, "feedback", "", 400,
                                    HTTPException(400, INVALID_SCENARIO))
            /\ UNCHANGED <<sessions, pending>>
       ELSE IF "chatActor" \notin DOMAIN scenarios_data[scenario_id]
       THEN /\ lastRet' = HttpReply(nreq + 1, "feedback", "", 400,
                                    HTTPException(400, CHATACTOR_MISSING))
            /\ UNCHANGED <<sessions, pending>>
       ELSE IF ~GOOGLE_API_KEY
       THEN \* the adapter returns before it assembles the prompt
            CallOracle(sessions,
                Request(nreq + 1, "feedback", "", 0, <<>>, <<>>, <<>>, NoPrompt))
       ELSE IF feedback_prompt_raises(scenarios_data[scenario_id]) /= NoError
       THEN \* the KeyError leaves the adapter; the handler's except answers 500
            /\ lastRet' = HttpReply(nreq + 1, "feedback", "", 500,
                              feedback_prompt_raises(scenarios_data[scenario_id]))
            /\ UNCHANGED <<sessions, pending>>
       ELSE CallOracle(sessions,
                Request(nreq + 1, "feedback", "", 0, <<>>, <<>>, <<>>,
                        feedback_prompt(history, scenarios_data[scenario_id])))

\* as oracle_returns, but a handler whose oracle call raised calls the
\* oracle once more before it gives up
oracle_returns_retrying(id, outcome) ==
    /\ id \in DOMAIN pending
    /\ IF ~outcome.ok /\ pending[id].oracle_calls < 2
       THEN /\ pending' = [pending EXCEPT ![id].oracle_calls = @ + 1]
            /\ UNCHANGED <<sessions, lastRet>>
       ELSE /\ LET f == Finish(sessions, pending[id], outcome)
               IN  /\ sessions' = f.sessions
                   /\ lastRet' = f.ret
            /\ pending' = [k \in DOMAIN pending \ {id} |-> pending[k]]
    /\ UNCHANGED <<GOOGLE_API_KEY, scenarios_file, scenarios_data,
                   chat_sessions, nreq, probe, chatbot>>

\* the awaited oracle call of a suspended handler ends, and the handler runs
\* to its return
oracle_returns(id, outcome) ==
    /\ id \in DOMAIN pending
    /\ LET f == Finish(sessions, pending[id], outcome)
       IN  /\ sessions' = f.sessions
           /\ lastRet' = f.ret
    /\ pending' = [k \in DOMAIN pending \ {id} |-> pending[k]]
    /\ UNCHANGED <<GOOGLE_API_KEY, scenarios_file, scenarios_data,
                   chat_sessions, nreq, probe, chatbot>>

\* POST /add_scenario: read the document, append the record, write the
\* document, reload the mapping; any exception on the way is answered 500
add_scenario(scenario) ==
    /\ nreq < MaxRequests
    /\ nreq' = nreq + 1
    /\ UNCHANGED <<GOOGLE_API_KEY, chat_sessions, sessions, pending, probe, chatbot>>
    /\ IF scenarios_file.state /= "ok"
       THEN /\ lastRet' = HttpReply(nreq + 1, "add_scenario", "", 500,
                              IF scenarios_file.state = "missing"
                              THEN FileNotFoundError ELSE JSONDecodeError)
            /\ UNCHANGED <<scenarios_file, scenarios_data>>
       ELSE LET written == Document(Append(scenarios_file.records, scenario))
                r == reload_scenarios(written, scenarios_data)
            IN  /\ scenarios_file' = written
                /\ scenarios_data' = r.scenarios_data
                /\ lastRet' = HttpReply(nreq + 1, "add_scenario", "",
                                  IF r.raised = NoError THEN 200 ELSE 500, r.raised)

NoProbe == [stage |-> "none", session |-> <<>>, message |-> <<>>, result |-> <<>>,
            directive |-> [action |-> "none", question |-> <<>>]]

\* the module-level statements of main.py: the stores are created and the
\* scenarios loaded from `file`
Startup(file) ==
    /\ scenarios_file = file
    /\ scenarios_data = reload_scenarios(file, [id \in {} |-> NoError]).scenarios_data
    /\ chat_sessions = [k \in {} |-> 0]
    /\ sessions = <<>>
    /\ pending = [k \in {} |-> NoRequest]
    /\ nreq = 0
    /\ lastRet = NoReturn

ServerStart ==
    /\ GOOGLE_API_KEY \in BOOLEAN
    /\ Startup(InitialFile)

\* no Chatbot exists in the server process
NoChatbot == [pc |-> "absent"]

Init == ServerStart /\ probe = NoProbe /\ chatbot = NoChatbot

Next ==
    \/ \E sid \in SessionIds, scen \in ScenarioIds : start_chat(sid, scen)
    \/ \E sid \in SessionIds, msg \in Messages : chat(sid, msg)
    \/ \E scen \in ScenarioIds : feedback_endpoint(scen, ClientHistory)
    \/ \E id \in 1..MaxRequests, outcome \in OracleOutcomes : oracle_returns(id, outcome)
    \/ \E scenario \in NewScenarios : add_scenario(scenario)

Spec == Init /\ [][Next]_vars

(***************************************************************************)
(* The same server with one client session, with requests that name the    *)
(* hand-written records lacking a field as well, and with an oracle that   *)
(* may answer without a text.                                              *)
(***************************************************************************)
MalformedNext ==
    \/ \E scen \in ScenarioIds \cup MalformedIds : start_chat("s1", scen)
    \/ \E msg \in Messages : chat("s1", msg)
    \/ \E scen \in ScenarioIds \cup MalformedIds : feedback_endpoint(scen, ClientHistory)
    \/ \E id \in 1..MaxRequests, outcome \in OracleOutcomes \cup {OracleNoText} :
          oracle_returns(id, outcome)
    \/ \E scenario \in NewScenarios : add_scenario(scenario)

MalformedSpec == Init /\ [][MalformedNext]_vars

(***************************************************************************)
(* The server with clients that wait for the answer: a chat request is     *)
(* sent for a session only when no request on that session is unanswered.  *)
(* Requests for different sessions still overlap.                          *)
(***************************************************************************)
chat_in_turn(session_id, message) ==
    /\ session_id \in DOMAIN chat_sessions =>
          \A id \in DOMAIN pending : pending[id].obj /= chat_sessions[session_id]
    /\ chat(session_id, message)

SequentialNext ==
    \/ \E sid \in SessionIds, scen \in ScenarioIds : start_chat(sid, scen)
    \/ \E sid \in SessionIds, msg \in Messages : chat_in_turn(sid, msg)
    \/ \E scen \in ScenarioIds : feedback_endpoint(scen, ClientHistory)
    \/ \E id \in 1..MaxRequests, outcome \in OracleOutcomes : oracle_returns(id, outcome)
    \/ \E scenario \in NewScenarios : add_scenario(scenario)

SequentialSpec == Init /\ [][SequentialNext]_vars

(***************************************************************************)
(* The scenario store and its backing document.  scenarios.json is a file  *)
(* beside the program: it is hand-written, and whoever maintains the       *)
(* deployment can replace it while the server runs.  The server starts     *)
(* only if the module-level reload does not raise.                         *)
(***************************************************************************)
\* a document whose second record has no id
Doc_noid == Document(<<Sc_none, Sc_noid, Sc_refund>>)
Documents ==
    {InitialFile, Document(<<Sc_refund>>), Doc_noid, InvalidJson, MissingFile}

\* scenarios.json is replaced from outside the process
edit_scenarios_file(doc) ==
    /\ doc /= scenarios_file
    /\ scenarios_file' = doc
    /\ UNCHANGED <<GOOGLE_API_KEY, scenarios_data, chat_sessions, sessions,
                   pending, nreq, lastRet, probe, chatbot>>

StoreInit ==
    /\ GOOGLE_API_KEY = FALSE
    /\ \E file \in Documents :
          /\ reload_scenarios(file, [id \in {} |-> NoError]).raised = NoError
          /\ Startup(file)
    /\ probe = NoProbe
    /\ chatbot = NoChatbot

StoreNext ==
    \/ \E doc \in Documents : edit_scenarios_file(doc)
    \/ \E scenario \in NewScenarios : add_scenario(scenario)
    \/ \E scen \in ScenarioIds \cup MalformedIds : feedback_endpoint(scen, ClientHistory)

StoreSpec == StoreInit /\ [][StoreNext]_vars

(***************************************************************************)
(* The session class driven directly, as the module's own test does        *)
(* (gemini_chat_service.py, under __main__): a session is constructed and  *)
(* send_message is called on it.  The goal question and the human text are *)
(* drawn from all texts up to a length over a small alphabet, the question *)
(* with an upper-case letter and the text with its lower-case form.        *)
(***************************************************************************)
QuestionChars == {"a", "B", " "}
TextChars == {"a", "b", " "}

Texts(chars, n) == UNION {[1..m -> chars] : m \in 0..n}

TestInit ==
    /\ ServerStart
    /\ chatbot = NoChatbot
    /\ \E q \in Texts(QuestionChars, MaxQuestionLen), text \in Texts(TextChars, MaxTextLen) :
          probe = [stage |-> "constructed",
                   session |-> GeminiChatSession("test_session_123",
                                                 ChatActor("Test Customer", <<q>>)),
                   message |-> text,
                   result |-> <<>>,
                   directive |-> [action |-> "none", question |-> <<>>]]

\* await test_session.send_message(message), the oracle answering
run_test_chat ==
    /\ probe.stage = "constructed"
    /\ LET b == send_message_begin(probe.session, probe.message)
           api == _call_gemini_api([ok |-> TRUE, has_text |-> TRUE, text |-> T_hello])
           after == send_message_end(b.self, api.text)
       IN  probe' = [stage |-> "returned", session |-> after,
                     message |-> probe.message,
                     result |-> after.goals_answered,
                     directive |-> b.prompt.directive]
    /\ UNCHANGED <<GOOGLE_API_KEY, scenarios_file, scenarios_data, chat_sessions,
                   sessions, pending, nreq, lastRet, chatbot>>

TestNext == run_test_chat

TestSpec == TestInit /\ [][TestNext]_vars

(***************************************************************************)
(* The console simulator, Tools/chatbot_simulator.py: a Chatbot is         *)
(* constructed with a list of goal questions and start_chat(max_turns)     *)
(* runs its loop, the oracle answering each call and a person typing each  *)
(* customer-service reply.  The program is single-threaded; its loop is    *)
(* cut at input().  The goal questions are drawn from two questions, with  *)
(* repetition.                                                             *)
(***************************************************************************)
MaxGoals == 2
MaxTurns == 3

\* "I'm sorry, I'm having trouble connecting right now. Please try again later."
CONSOLE_ERROR_TEXT ==
    <<"I","'","m"," ","s","o","r","r","y",","," ","I","'","m"," ","h","a",
      "v","i","n","g"," ","t","r","o","u","b","l","e"," ","c","o","n","n",
      "e","c","t","i","n","g"," ","r","i","g","h","t"," ","n","o","w",".",
      " ","P","l","e","a","s","e"," ","t","r","y"," ","a","g","a","i","n",
      " ","l","a","t","e","r",".">>
\* "Hold on": contains no word of either goal question
R_hold == <<"H","o","l","d"," ","o","n">>

GoalLists == UNION {[1..n -> {Q_refund, Q_warranty}] : n \in 0..MaxGoals}
\* what is typed at the input() prompt
TypedReplies == {M_refund, M_warranty, R_hold}
\* the oracle answers with a greeting, or with the first question verbatim,
\* or the call raises
ConsoleOutcomes ==
    [ok : {TRUE}, has_text : {TRUE}, text : {T_hello, Q_refund}] \cup {OracleRaises}

\* Chatbot.__init__, and the locals of start_chat at its first turn
Chatbot(name, goal_questions, max_turns) ==
    [name |-> name,
     goal_questions |-> goal_questions,
     asked_questions |-> {},
     chat_history |-> <<>>,
     current_question_index |-> 0,
     max_turns |-> max_turns,
     turn |-> 1,
     customer_service_response |-> <<>>,
     customer_message |-> <<>>,
     pc |-> "loop"]

\* Chatbot._call_gemini_api with the oracle call ending in `outcome`
Chatbot_call_gemini_api(outcome) ==
    IF outcome.ok /\ outcome.has_text THEN outcome.text ELSE CONSOLE_ERROR_TEXT

\* Chatbot.is_goal_achieved
Chatbot_is_goal_achieved(self) ==
    Cardinality(self.asked_questions) = Len(self.goal_questions)

\* Chatbot._construct_prompt: the prompt, the object after the call (the
\* cursor may have moved), and whether indexing goal_questions raised
\* IndexError.  The cursor counts from 0 as in the source.
Chatbot_construct_prompt(self, customer_service_response) ==
    LET gq == self.goal_questions
        idx == self.current_question_index
        prompt(action, question) ==
            [name |-> self.name, goal_questions |-> gq,
             history |-> self.chat_history,
             customer_service_response |-> customer_service_response,
             directive |-> [action |-> action, question |-> question]]
        moved == [self EXCEPT !.current_question_index = idx + 1]
    IN  IF Chatbot_is_goal_achieved(self)
        THEN [raised |-> FALSE, self |-> self, prompt |-> prompt("end", <<>>)]
        ELSE IF idx >= Len(gq)
        THEN [raised |-> TRUE, self |-> self, prompt |-> prompt("none", <<>>)]
        ELSE IF gq[idx + 1] \notin self.asked_questions
        THEN [raised |-> FALSE, self |-> self, prompt |-> prompt("ask", gq[idx + 1])]
        ELSE IF idx + 1 < Len(gq)
        THEN [raised |-> FALSE, self |-> moved, prompt |-> prompt("ask", gq[idx + 2])]
        ELSE [raised |-> FALSE, self |-> moved, prompt |-> prompt("conclude", <<>>)]

\* start_chat from the top of the loop body to input(), or to the break, or
\* to the exception leaving the program
console_turn(outcome) ==
    /\ chatbot.pc = "loop"
    /\ LET p == Chatbot_construct_prompt(chatbot, chatbot.customer_service_response)
           text == Chatbot_call_gemini_api(outcome)
       IN  IF Chatbot_is_goal_achieved(chatbot)
           THEN chatbot' = [p.self EXCEPT
                              !.chat_history =
                                  Append(@, [role |-> CUSTOMER_SERVICE, text |-> text]),
                              !.pc = "done"]
           ELSE IF p.raised
           THEN chatbot' = [chatbot EXCEPT !.pc = "crashed"]
           ELSE chatbot' = [p.self EXCEPT
                              !.chat_history =
                                  Append(@, [role |-> chatbot.name, text |-> text]),
                              !.customer_message = text,
                              !.pc = "input"]
    /\ UNCHANGED <<GOOGLE_API_KEY, scenarios_file, scenarios_data, chat_sessions,
                   sessions, pending, nreq, lastRet, probe>>

\* start_chat from the return of input() to the top of the next turn
console_input(typed) ==
    /\ chatbot.pc = "input"
    /\ LET gq == chatbot.goal_questions
           idx == chatbot.current_question_index
           current_goal_q == lower(gq[idx + 1])
           words == split(current_goal_q)
           addressed ==
               /\ idx < Len(gq)
               /\ \/ \E k \in 1..Len(words) : str_in(words[k], lower(typed))
                  \/ str_in(current_goal_q, lower(chatbot.customer_message))
       IN  chatbot' = [chatbot EXCEPT
                         !.chat_history =
                             Append(@, [role |-> CUSTOMER_SERVICE, text |-> typed]),
                         !.customer_service_response = typed,
                         !.asked_questions =
                             IF addressed THEN @ \cup {gq[idx + 1]} ELSE @,
                         !.current_question_index = IF addressed THEN @ + 1 ELSE @,
                         !.turn = @ + 1,
                         !.pc = IF chatbot.turn + 1 > chatbot.max_turns
                                THEN "done" ELSE "loop"]
    /\ UNCHANGED <<GOOGLE_API_KEY, scenarios_file, scenarios_data, chat_sessions,
                   sessions, pending, nreq, lastRet, probe>>

\* the script's module-level statements and the construction of the Chatbot
ConsoleInit ==
    /\ GOOGLE_API_KEY = TRUE
    /\ Startup(InitialFile)
    /\ probe = NoProbe
    /\ \E goal_questions \in GoalLists :
          chatbot = Chatbot("Alice", goal_questions, MaxTurns)

ConsoleNext ==
    \/ \E outcome \in ConsoleOutcomes : console_turn(outcome)
    \/ \E typed \in TypedReplies : console_input(typed)

ConsoleSpec == ConsoleInit /\ [][ConsoleNext]_vars

(***************************************************************************)
(* Vocabulary of the properties.                                           *)
(***************************************************************************)
Objects == 1..Len(sessions)

AllTrue(flags) == \A k \in 1..Len(flags) : flags[k]

\* the requests the state knows of: the suspended ones and the last completed
Requests == {pending[id] : id \in DOMAIN pending} \cup {lastRet.req}

\* the send_message calls among them
SendMessages == {r \in Requests : r.kind = "chat" /\ r.obj > 0}

\* the whitespace-delimited words of question q longer than 3 characters
LongWords(q) ==
    LET ws == split(q)
    IN  {ws[k] : k \in {j \in 1..Len(ws) : Len(ws[j]) > 3}}

\* text contains word w, compared case-insensitively, as a substring
ContainsWord(text, w) == str_in(lower(w), lower(text))

\* the request received in the step under consideration, if it reached a session
NewRequests ==
    {r \in {pending'[id] : id \in DOMAIN pending'} \cup {lastRet'.req} :
        nreq' = nreq + 1 /\ r.id = nreq'}

(***************************************************************************)
(* C1.  A goal flag of a session that is true stays true: no step of any   *)
(* handler (start_chat, chat, the end of an oracle call, add_scenario and  *)
(* its reload), in any interleaving, turns a true flag of a                *)
(* GeminiChatSession object false.                                         *)
(***************************************************************************)
C1_FlagNeverReset ==
    [][\A o \in Objects : \A k \in 1..Len(sessions[o].goals_answered) :
          sessions[o].goals_answered[k] => sessions'[o].goals_answered[k]]_vars

\* a send_message has returned on a session one of whose flags was already
\* true when it was called
C1_Witness ==
    /\ lastRet.req.kind = "chat"
    /\ lastRet.req.obj > 0
    /\ \E k \in 1..Len(lastRet.req.before) :
          lastRet.req.before[k] /\ sessions[lastRet.req.obj].goals_answered[k]

(***************************************************************************)
(* C3.  After every step each session has as many goal flags as goal       *)
(* questions, and a session that existed before the step has as many goal  *)
(* questions as before it: the count it was created with.                  *)
(***************************************************************************)
C3_FlagCountFixed ==
    [][\A o \in 1..Len(sessions') :
          /\ Len(sessions'[o].goals_answered) = Len(sessions'[o].goal_questions)
          /\ o \in Objects =>
                Len(sessions'[o].goal_questions) = Len(sessions[o].goal_questions)]_vars

\* a session created with two goals has taken a human turn, and the scenario
\* it was created from has since been replaced by one with three goals
C3_Witness ==
    \E o \in Objects :
        /\ Len(sessions[o].goal_questions) = 2
        /\ Len(sessions[o].goals_answered) = 2
        /\ Len(sessions[o].chat_history) >= 2
        /\ "refund" \in DOMAIN scenarios_data
        /\ Len(scenarios_data["refund"].chatActor.goalQuestions) = 3

(***************************************************************************)
(* C4.  In every session whose transcript is not empty, the first entry is *)
(* persona-authored (so it was recorded before any human turn).            *)
(***************************************************************************)
C4_FirstEntryPersona ==
    \A o \in Objects :
        sessions[o].chat_history /= <<>> =>
            sessions[o].chat_history[1].role = sessions[o].name

(***************************************************************************)
(* C5.  A send_message that assembles its prompt when all goal flags of    *)
(* the session are true (a session without goals included) builds a prompt *)
(* whose directive is the closing one, not a goal-pursuit directive.       *)
(***************************************************************************)
C5_ClosingWhenAllTrue ==
    \A r \in SendMessages :
        AllTrue(r.at_prompt) =>
            /\ r.prompt.directive = Closing
            /\ r.prompt.directive.action /= "ask"

\* a prompt was assembled for a session with goals, all of them flagged
C5_Witness ==
    \E r \in SendMessages :
        /\ Len(r.at_prompt) > 0
        /\ AllTrue(r.at_prompt)
        /\ r.prompt.directive = Closing

(***************************************************************************)
(* C6.  When the oracle call of send_message or of the opening call fails, *)
(* or the credential is absent, the call does not raise and returns a      *)
(* non-empty text, which is the fixed fallback text of that cause.         *)
(***************************************************************************)
C6_FallbackOnFailure ==
    (lastRet.req.obj > 0 /\ lastRet.oracle \in {"fail", "nokey"}) =>
        /\ ~lastRet.raised
        /\ lastRet.status = 200
        /\ Len(lastRet.ai_response) > 0
        /\ lastRet.ai_response =
               (IF lastRet.oracle = "nokey" THEN NO_KEY_TEXT ELSE API_ERROR_TEXT)

\* a send_message whose oracle call raised has returned
C6_Witness ==
    /\ lastRet.req.kind = "chat"
    /\ lastRet.req.obj > 0
    /\ lastRet.oracle = "fail"
    /\ lastRet.ai_response = API_ERROR_TEXT

(***************************************************************************)
(* C7 as stated.  When the oracle call inside send_message fails, the      *)
(* flags send_message returns are the flags the session had before the     *)
(* call.                                                                   *)
(***************************************************************************)
C7_FlagsAsBeforeCall ==
    (lastRet.req.kind = "chat" /\ lastRet.oracle = "fail") =>
        lastRet.goals_answered = lastRet.req.before

(***************************************************************************)
(* C7 amended.  When the oracle call inside send_message fails, the        *)
(* handling of the failure changes no flag: goal matching ran before the   *)
(* oracle call and set exactly the flags that were set before the call or  *)
(* whose question has a word longer than 3 characters in the human text,   *)
(* and each of them is still set in the flags send_message returns.        *)
(***************************************************************************)
C7_FailureKeepsMatchedFlags ==
    [][(lastRet' /= lastRet /\ lastRet'.req.kind = "chat" /\ lastRet'.oracle = "fail") =>
          LET r == lastRet'.req
              qs == sessions'[r.obj].goal_questions
          IN  /\ sessions'[r.obj].goals_answered = sessions[r.obj].goals_answered
              /\ lastRet'.goals_answered = sessions'[r.obj].goals_answered
              /\ \A k \in 1..Len(qs) :
                    /\ r.at_prompt[k] <=>
                          (r.before[k] \/ \E w \in LongWords(qs[k]) : ContainsWord(r.text, w))
                    /\ r.at_prompt[k] => lastRet'.goals_answered[k]]_vars

\* a send_message whose oracle call failed has returned flags that differ
\* from those before the call
C7_Witness ==
    /\ lastRet.req.kind = "chat"
    /\ lastRet.oracle = "fail"
    /\ lastRet.goals_answered /= lastRet.req.before

(***************************************************************************)
(* C8.  current_question_index of a session never decreases, whatever the  *)
(* sequence and interleaving of requests.                                  *)
(***************************************************************************)
C8_CursorNeverDecreases ==
    [][\A o \in Objects :
          sessions'[o].current_question_index >= sessions[o].current_question_index]_vars

\* the cursor of a session has advanced and a later send_message has returned
C8_Witness ==
    /\ lastRet.req.kind = "chat"
    /\ lastRet.req.obj > 0
    /\ sessions[lastRet.req.obj].current_question_index > 0
    /\ \E k \in 1..Len(lastRet.req.before) : lastRet.req.before[k]

(***************************************************************************)
(* C9.  Once all goal flags of a session are true, no step changes its     *)
(* flags or its cursor, and every send_message received for it builds a    *)
(* prompt whose directive is the closing one.                              *)
(***************************************************************************)
C9_AllSatisfiedIsTerminal ==
    [][\A o \in Objects :
          AllTrue(sessions[o].goals_answered) =>
              /\ sessions'[o].goals_answered = sessions[o].goals_answered
              /\ sessions'[o].current_question_index =
                     sessions[o].current_question_index
              /\ \A r \in NewRequests :
                    (r.kind = "chat" /\ r.obj = o) => r.prompt.directive = Closing]_vars

\* a send_message was received by a session with goals, all flagged before
\* that call
C9_Witness ==
    \E r \in SendMessages :
        /\ Len(r.before) > 0
        /\ AllTrue(r.before)
        /\ r.prompt.directive = Closing

(***************************************************************************)
(* C10.  With the goals "What is the refund policy?" and "How long is the  *)
(* warranty?", both flags false, the human text "Our refund policy allows  *)
(* 30 days" sets flag 0 and leaves flag 1 false; and for every             *)
(* send_message, a flag that was false before the call is false after goal *)
(* matching when the human text contains none of the question's words      *)
(* longer than 3 characters.                                               *)
(***************************************************************************)
C10_RefundExample ==
    \A r \in SendMessages :
        LET qs == sessions[r.obj].goal_questions
        IN  /\ (/\ qs = <<Q_refund, Q_warranty>>
                /\ r.before = <<FALSE, FALSE>>
                /\ r.text = M_refund) => r.at_prompt = <<TRUE, FALSE>>
            /\ \A k \in 1..Len(qs) :
                  (/\ ~r.before[k]
                   /\ \A w \in LongWords(qs[k]) : ~ContainsWord(r.text, w))
                      => ~r.at_prompt[k]

\* the send_message of the example has run
C10_Witness ==
    \E r \in SendMessages :
        /\ sessions[r.obj].goal_questions = <<Q_refund, Q_warranty>>
        /\ r.before = <<FALSE, FALSE>>
        /\ r.text = M_refund
        /\ r.at_prompt = <<TRUE, FALSE>>

C11_UnknownIdIsClientError ==
    [][/\ \A sid \in SessionIds : \A scen \in ScenarioIds \ DOMAIN scenarios_data :
             start_chat(sid, scen) => lastRet'.status \in 400..499
       /\ \A scen \in ScenarioIds \ DOMAIN scenarios_data :
             feedback_endpoint(scen, ClientHistory) => lastRet'.status \in 400..499
       /\ \A sid \in SessionIds \ DOMAIN chat_sessions : \A msg \in Messages :
             chat(sid, msg) => lastRet'.status \in 400..499]_vars

(***************************************************************************)
(* C12.  Every step leaves the scenario mapping either as it was or equal  *)
(* to the complete mapping of the document as it is after the step: every  *)
(* record of the document stored under its id.  A document that cannot be  *)
(* read, or has a record without id, has no complete mapping.              *)
(***************************************************************************)
CompleteMappings(file) ==
    IF /\ file.state = "ok"
       /\ \A k \in 1..Len(file.records) : "id" \in DOMAIN file.records[k]
    THEN {populated(file.records, Len(file.records))}
    ELSE {}

C12_ReloadAtomic ==
    [][\/ scenarios_data' = scenarios_data
       \/ scenarios_data' \in CompleteMappings(scenarios_file')]_vars

(***************************************************************************)
(* C13.  The registry is create-or-fetch: a step constructs a session only *)
(* for a session id that is not registered, and a registered session id    *)
(* stays bound to the same session object, whose transcript only grows and *)
(* whose flags and cursor are those of C1 and C8.                          *)
(***************************************************************************)
C13_CreateOrFetch ==
    [][/\ \A sid \in DOMAIN chat_sessions :
             /\ sid \in DOMAIN chat_sessions'
             /\ chat_sessions'[sid] = chat_sessions[sid]
       /\ \A o \in 1..Len(sessions') :
             o \notin Objects => sessions'[o].session_id \notin DOMAIN chat_sessions]_vars

(***************************************************************************)
(* C14.  No step removes a key from the session registry: a session id     *)
(* that is registered before a step is registered after it.                *)
(***************************************************************************)
C14_NeverEvicted ==
    [][DOMAIN chat_sessions \subseteq DOMAIN chat_sessions']_vars

\* both session ids are registered, and one of them has been registered again
\* after the other
C14_Witness ==
    /\ DOMAIN chat_sessions = SessionIds
    /\ Len(sessions) > 2
    /\ \E sid \in SessionIds : chat_sessions[sid] = 1

(***************************************************************************)
(* C15.  A start_chat naming a scenario record that has no chatActor, or   *)
(* whose chatActor has no customerName, backstory, tone or goalQuestions,  *)
(* is answered with a status from 500 to 599, and it fails when the        *)
(* session is created: no session is stored or registered and no oracle    *)
(* call is made.                                                           *)
(***************************************************************************)
LacksRequiredField(scenario) ==
    \/ "chatActor" \notin DOMAIN scenario
    \/ \E k \in 1..Len(InitKeys) : InitKeys[k] \notin DOMAIN scenario.chatActor

C15_MalformedRecordIsServerError ==
    [][\A sid \in SessionIds : \A scen \in DOMAIN scenarios_data :
          (LacksRequiredField(scenarios_data[scen]) /\ start_chat(sid, scen)) =>
              /\ lastRet'.req.id = nreq'
              /\ lastRet'.status \in 500..599
              /\ sessions' = sessions
              /\ chat_sessions' = chat_sessions
              /\ pending' = pending]_vars

\* a start_chat on the record whose chatActor has no tone has been answered,
\* after a session of the same client had been created from a complete record
C15_Witness ==
    /\ lastRet.req.kind = "start_chat"
    /\ lastRet.error = KeyError("tone")
    /\ lastRet.status = 500
    /\ "s1" \in DOMAIN chat_sessions

(***************************************************************************)
(* C16.  Without the credential, every start_chat, chat and feedback       *)
(* request that names a known, complete scenario (or a registered session) *)
(* is answered 200 with the fixed text of its adapter, and no handler is   *)
(* ever waiting in an oracle call.                                         *)
(***************************************************************************)
C16_NoKeyStaticText ==
    ~GOOGLE_API_KEY =>
        /\ DOMAIN pending = {}
        /\ (lastRet.req.kind \in {"start_chat", "chat", "feedback"}
                /\ lastRet.error = NoError) =>
              /\ lastRet.status = 200
              /\ lastRet.oracle = "nokey"
              /\ lastRet.ai_response =
                     (IF lastRet.req.kind = "feedback"
                      THEN FEEDBACK_NO_KEY_TEXT ELSE NO_KEY_TEXT)

\* without the credential a session was opened and took a turn, both
\* answered with the static text, and a feedback request has been answered
C16_Witness ==
    /\ ~GOOGLE_API_KEY
    /\ lastRet.req.kind = "feedback"
    /\ lastRet.status = 200
    /\ lastRet.ai_response = FEEDBACK_NO_KEY_TEXT
    /\ \E o \in Objects :
          /\ Len(sessions[o].chat_history) = 3
          /\ sessions[o].chat_history[1].text = NO_KEY_TEXT
          /\ sessions[o].chat_history[3].text = NO_KEY_TEXT

(***************************************************************************)
(* C17.  Chat requests for one session are not serialized.  Whenever two   *)
(* of them are waiting for the oracle, the later one appended its human    *)
(* entry and built its prompt while the earlier one was unanswered: the    *)
(* transcript in the later prompt extends the one in the earlier prompt,   *)
(* holds the earlier human entry and ends with the later one, the flags    *)
(* at the later prompt include those at the earlier, and the session's     *)
(* transcript holds both.  The witness shows that such a state is reached, *)
(* with the two human entries last in the transcript.                      *)
(***************************************************************************)
PendingChats == {r \in {pending[id] : id \in DOMAIN pending} : r.kind = "chat"}

Human(text) == [role |-> CUSTOMER_SERVICE, text |-> text]

C17_ConcurrentChatsInterleave ==
    \A r1, r2 \in PendingChats :
        (r1.obj = r2.obj /\ r1.id < r2.id) =>
            LET h1 == r1.prompt.history
                h2 == r2.prompt.history
                h  == sessions[r1.obj].chat_history
            IN  /\ 0 < Len(h1)
                /\ Len(h1) < Len(h2)
                /\ Len(h2) <= Len(h)
                /\ SubSeq(h2, 1, Len(h1)) = h1
                /\ h2[Len(h1)] = Human(r1.text)
                /\ h2[Len(h2)] = Human(r2.text)
                /\ SubSeq(h, 1, Len(h2)) = h2
                /\ \A k \in 1..Len(r1.at_prompt) : r1.at_prompt[k] => r2.at_prompt[k]
                /\ \A k \in 1..Len(r2.at_prompt) :
                      r2.at_prompt[k] => sessions[r1.obj].goals_answered[k]

\* two chat requests of one session are waiting for the oracle, their human
\* entries are the last two of the transcript, and each has set a flag
C17_Witness ==
    \E r1, r2 \in PendingChats :
        /\ r1.obj = r2.obj
        /\ r1.id < r2.id
        /\ LET h == sessions[r1.obj].chat_history
           IN  /\ Len(h) >= 2
               /\ h[Len(h) - 1] = Human(r1.text)
               /\ h[Len(h)] = Human(r2.text)
               /\ r2.prompt.history = h
        /\ r1.at_prompt = <<TRUE, FALSE>>
        /\ r2.at_prompt = <<TRUE, TRUE>>

(***************************************************************************)
(* C18.  When the oracle call of a feedback request ends with a response   *)
(* that has a text, the request is answered 200 with exactly that text.    *)
(***************************************************************************)
C18_FeedbackVerbatim ==
    [][\A id \in DOMAIN pending : \A outcome \in OracleOutcomes :
          (/\ pending[id].kind = "feedback"
           /\ outcome.ok /\ outcome.has_text
           /\ oracle_returns(id, outcome)) =>
              /\ lastRet'.req = pending[id]
              /\ lastRet'.status = 200
              /\ lastRet'.ai_response = outcome.text]_vars

\* a feedback request has returned the oracle's text, which is not what
\* formatting it sentence by sentence gives
C18_Witness ==
    /\ lastRet.req.kind = "feedback"
    /\ lastRet.oracle = "ok"
    /\ lastRet.ai_response \in OracleTexts
    /\ sentences_on_lines(lastRet.ai_response) /= lastRet.ai_response

(***************************************************************************)
(* C19.  Every send_message appends exactly two entries to the transcript  *)
(* of its session: (Customer Service, human text) when it is called, and   *)
(* (persona name, reply) when its oracle call has ended, the reply being   *)
(* the text it returns; so too when the oracle fails, the reply then being *)
(* the fallback text.  It appends nothing else.                            *)
(***************************************************************************)
C19_TwoEntriesPerTurn ==
    [][/\ \A r \in NewRequests :
             (r.kind = "chat" /\ r.obj > 0) =>
                 LET h == sessions[r.obj].chat_history
                     name == sessions[r.obj].name
                 IN  IF r.id \in DOMAIN pending'
                     THEN sessions'[r.obj].chat_history = Append(h, Human(r.text))
                     ELSE /\ lastRet'.req = r
                          /\ ~lastRet'.raised
                          /\ sessions'[r.obj].chat_history =
                                 h \o <<Human(r.text),
                                        [role |-> name, text |-> lastRet'.ai_response]>>
       /\ \A id \in DOMAIN pending \ DOMAIN pending' :
             pending[id].kind = "chat" =>
                 LET o == pending[id].obj
                 IN  /\ lastRet'.req = pending[id]
                     /\ ~lastRet'.raised
                     /\ sessions'[o].chat_history =
                            Append(sessions[o].chat_history,
                                   [role |-> sessions[o].name,
                                    text |-> lastRet'.ai_response])]_vars

\* a send_message whose oracle call failed has returned: the transcript ends
\* with its human entry and the fallback text it returned
C19_Witness ==
    /\ lastRet.req.kind = "chat"
    /\ lastRet.oracle = "fail"
    /\ LET h == sessions[lastRet.req.obj].chat_history
       IN  /\ Len(h) >= 2
           /\ h[Len(h) - 1] = Human(lastRet.req.text)
           /\ h[Len(h)] = [role |-> sessions[lastRet.req.obj].name,
                           text |-> API_ERROR_TEXT]
           /\ lastRet.ai_response = API_ERROR_TEXT

(***************************************************************************)
(* C20.  When send_message assembles its prompt, with the flags as goal    *)
(* matching left them: if the goal at the cursor is unmet, the prompt asks *)
(* that goal's question and the cursor stays; otherwise, if some goal is   *)
(* unmet, the cursor moves to an unmet goal and the prompt asks that       *)
(* goal's question; if no goal is unmet, the prompt carries the closing    *)
(* directive and the cursor stays.                                         *)
(***************************************************************************)
C20_DirectiveChoice ==
    [][\A r \in NewRequests :
          (r.kind = "chat" /\ r.obj > 0) =>
              LET cursor == sessions[r.obj].current_question_index
                  after  == sessions'[r.obj].current_question_index
                  qs     == sessions[r.obj].goal_questions
                  Unmet(k) == k < Len(qs) /\ ~r.at_prompt[k + 1]
                  d      == r.prompt.directive
              IN  IF Unmet(cursor)
                  THEN /\ d = [action |-> "ask", question |-> qs[cursor + 1]]
                       /\ after = cursor
                  ELSE IF \E k \in 0..(Len(qs) - 1) : Unmet(k)
                       THEN /\ Unmet(after)
                            /\ d = [action |-> "ask", question |-> qs[after + 1]]
                       ELSE /\ d = Closing
                            /\ after = cursor]_vars

\* a send_message met the goal at the cursor, moved the cursor to the goal
\* still unmet and asked its question
C20_Witness ==
    \E r \in SendMessages :
        /\ r.before = <<FALSE, FALSE>>
        /\ r.at_prompt = <<TRUE, FALSE>>
        /\ r.prompt.directive = [action |-> "ask", question |-> Q_warranty]
        /\ sessions[r.obj].current_question_index = 1

(***************************************************************************)
(* C21.  When start_new_chat_session returns: the prompt it sent was the   *)
(* opening prompt, with no transcript and no human turn in it; it appended *)
(* exactly one entry, the reply under the persona's name; and, no goal     *)
(* matching having run, all goal flags of the session are false and its    *)
(* cursor is 0.                                                            *)
(***************************************************************************)
C21_OpeningTransition ==
    [][(lastRet' /= lastRet /\ lastRet'.req.kind = "start_chat" /\ lastRet'.req.obj > 0) =>
          LET r == lastRet'.req
              self == sessions'[r.obj]
              was == IF r.obj \in Objects THEN sessions[r.obj].chat_history ELSE <<>>
          IN  /\ r.prompt = initial_prompt(self)
              /\ r.prompt.history = <<>>
              /\ r.prompt.last = <<>>
              /\ self.chat_history =
                     Append(was, [role |-> self.name, text |-> lastRet'.ai_response])
              /\ \A k \in 1..Len(self.goals_answered) : ~self.goals_answered[k]
              /\ self.current_question_index = 0]_vars

(***************************************************************************)
(* C22.  There is no retry.  A start or send_message call has called the   *)
(* oracle at most once: exactly once with the credential, never without.   *)
(* When its one oracle call has failed, the call returns the fallback text *)
(* and is not waiting in another oracle call.                              *)
(***************************************************************************)
SessionCalls == {r \in Requests : r.kind \in {"start_chat", "chat"} /\ r.obj > 0}

C22_NoRetry ==
    /\ \A r \in SessionCalls :
          r.oracle_calls = (IF GOOGLE_API_KEY THEN 1 ELSE 0)
    /\ (lastRet.req \in SessionCalls /\ lastRet.oracle = "fail") =>
          /\ lastRet.ai_response = API_ERROR_TEXT
          /\ lastRet.req.id \notin DOMAIN pending

\* the oracle call of a send_message has failed and the call has returned,
\* while another call of the same session is still waiting for the oracle
C22_Witness ==
    /\ lastRet.req.kind = "chat"
    /\ lastRet.oracle = "fail"
    /\ lastRet.req.oracle_calls = 1
    /\ \E id \in DOMAIN pending : pending[id].obj = lastRet.req.obj

(***************************************************************************)
(* C23.  In every state, for every session: each goal with an index below  *)
(* the cursor has its flag true, and the cursor is an index of the goal    *)
(* list, or 0 when the list is empty.                                      *)
(***************************************************************************)
C23_CursorInvariant ==
    \A o \in Objects :
        LET self == sessions[o]
            n == Len(self.goal_questions)
            cursor == self.current_question_index
        IN  /\ \A k \in 1..cursor : k <= n /\ self.goals_answered[k]
            /\ IF n = 0 THEN cursor = 0 ELSE cursor \in 0..(n - 1)

\* a session's cursor has moved past its first goal, to a goal still unmet
C23_Witness ==
    \E o \in Objects :
        /\ sessions[o].current_question_index = 1
        /\ sessions[o].goals_answered = <<TRUE, FALSE>>
        /\ Len(sessions[o].chat_history) >= 2

(***************************************************************************)
(* C24.  Whenever send_message builds a prompt whose directive asks a goal *)
(* question, that question is the one of the lowest-indexed goal whose     *)
(* flag is false when the prompt is built, also when a goal with a higher  *)
(* index was satisfied first.                                              *)
(***************************************************************************)
C24_AsksLowestUnmet ==
    \A r \in SendMessages :
        r.prompt.directive.action = "ask" =>
            LET unmet == {k \in 1..Len(r.at_prompt) : ~r.at_prompt[k]}
            IN  /\ unmet /= {}
                /\ r.prompt.directive.question =
                       sessions[r.obj].goal_questions[
                           CHOOSE k \in unmet : \A j \in unmet : k <= j]

\* a human message satisfied the third goal while the first two were unmet,
\* and the prompt asks the first
C24_Witness ==
    \E r \in SendMessages :
        /\ r.before = <<FALSE, FALSE, FALSE>>
        /\ r.at_prompt = <<FALSE, FALSE, TRUE>>
        /\ r.prompt.directive = [action |-> "ask", question |-> Q_short]

(***************************************************************************)
(* C25.  A goal question none of whose whitespace-delimited words is       *)
(* longer than 3 characters is not flagged by any human message: after     *)
(* send_message its flag is false, whatever the text, so the session has   *)
(* not all goals satisfied and the prompt built is not the closing one.    *)
(* A flag is set by one message alone or not at all, so what holds of      *)
(* every single message holds of every sequence of them.                   *)
(***************************************************************************)
C25_ShortWordGoalNeverMet ==
    probe.stage = "returned" =>
        \A k \in 1..Len(probe.session.goal_questions) :
            LongWords(probe.session.goal_questions[k]) = {} =>
                /\ ~probe.result[k]
                /\ ~AllTrue(probe.session.goals_answered)
                /\ probe.directive /= Closing
                /\ probe.directive =
                       [action |-> "ask", question |-> probe.session.goal_questions[k]]

\* send_message has returned for a question of several words, all short, one
\* of which the human text contains
C25_Witness ==
    /\ probe.stage = "returned"
    /\ LET q == probe.session.goal_questions[1]
           ws == split(q)
       IN  /\ Len(ws) >= 2
           /\ LongWords(q) = {}
           /\ \E j \in 1..Len(ws) : ContainsWord(probe.message, ws[j])
    /\ ~probe.result[1]

(***************************************************************************)
(* C26.  When the requests on each session come one after another          *)
(* (start_chat answered before the first chat, each chat answered before   *)
(* the next), the transcript of a session has the form persona, (human,    *)
(* persona)*: in every state its entries alternate between the persona's   *)
(* name and Customer Service, beginning with the persona, and whenever no  *)
(* request on the session is unanswered its length is odd.                 *)
(***************************************************************************)
C26_TranscriptAlternates ==
    \A o \in Objects :
        LET h == sessions[o].chat_history
        IN  /\ \A k \in 1..Len(h) :
                  h[k].role = (IF k % 2 = 1 THEN sessions[o].name ELSE CUSTOMER_SERVICE)
            /\ (\A id \in DOMAIN pending : pending[id].obj /= o) => Len(h) % 2 = 1

\* a session has been opened and has taken two turns, each answered before
\* the next request, with the credential set
C26_Witness ==
    /\ GOOGLE_API_KEY
    /\ DOMAIN pending = {}
    /\ \E o \in Objects : Len(sessions[o].chat_history) = 5

(***************************************************************************)
(* C27.  Sessions are isolated.  A step that neither receives nor answers  *)
(* a request carrying session id B leaves B bound to the same session, and *)
(* leaves that session's transcript, goal flags and cursor (the whole      *)
(* object) unchanged: so in any interleaving of the requests for another   *)
(* session id with those for B, also when both sessions were created from  *)
(* the same scenario.                                                      *)
(***************************************************************************)
\* the requests received or answered in the step under consideration
StepRequests ==
    NewRequests \cup {pending[id] : id \in DOMAIN pending \ DOMAIN pending'}

C27_SessionsIsolated ==
    [][\A B \in DOMAIN chat_sessions :
          (\A r \in StepRequests : r.session_id /= B) =>
              /\ B \in DOMAIN chat_sessions'
              /\ chat_sessions'[B] = chat_sessions[B]
              /\ sessions'[chat_sessions[B]] = sessions[chat_sessions[B]]]_vars

\* two sessions were created from the same scenario; one has taken a turn
\* that set a flag, the other is as its opening left it
C27_Witness ==
    \E A, B \in DOMAIN chat_sessions :
        LET a == sessions[chat_sessions[A]]
            b == sessions[chat_sessions[B]]
        IN  /\ A /= B
            /\ a.goal_questions = b.goal_questions
            /\ a.name = b.name
            /\ Len(a.goal_questions) = 2
            /\ Len(a.chat_history) = 3
            /\ a.goals_answered[1]
            /\ Len(b.chat_history) = 1
            /\ b.goals_answered = <<FALSE, FALSE>>
            /\ b.current_question_index = 0

(***************************************************************************)
(* C28.  Requests that are rejected change no session state.  A chat for   *)
(* an unregistered session id, and a start_chat for a scenario id that is  *)
(* unknown or whose record lacks a required field, leave the registry and  *)
(* every session unchanged; so does every feedback request, when it is     *)
(* received and when its oracle call ends, whatever it is answered.        *)
(***************************************************************************)
SessionStateUnchanged == chat_sessions' = chat_sessions /\ sessions' = sessions

C28_RejectedChangesNothing ==
    [][/\ \A sid \in SessionIds : \A scen \in ScenarioIds \cup MalformedIds :
             (/\ \/ scen \notin DOMAIN scenarios_data
                 \/ LacksRequiredField(scenarios_data[scen])
              /\ start_chat(sid, scen)) => SessionStateUnchanged
       /\ \A sid \in SessionIds \ DOMAIN chat_sessions : \A msg \in Messages :
             chat(sid, msg) => SessionStateUnchanged
       /\ \A scen \in ScenarioIds \cup MalformedIds :
             feedback_endpoint(scen, ClientHistory) => SessionStateUnchanged
       /\ \A id \in DOMAIN pending : \A outcome \in OracleOutcomes \cup {OracleNoText} :
             (pending[id].kind = "feedback" /\ oracle_returns(id, outcome))
                 => SessionStateUnchanged]_vars

\* a session exists and has taken a turn, and the last request answered was
\* refused: a chat for an id never registered, or a start_chat on a record
\* without chatActor
C28_Witness ==
    /\ \E o \in Objects : Len(sessions[o].chat_history) >= 2
    /\ lastRet.status \in {400, 500}
    /\ lastRet.req.id = 3
    /\ lastRet.error \in {HTTPException(400, SESSION_NOT_FOUND),
                          HTTPException(400, CHATACTOR_MISSING)}

(***************************************************************************)
(* C29.  In the console simulator, for every goal-question list, lists     *)
(* with repeated questions included, and every sequence of typed replies:  *)
(* whenever _construct_prompt is about to index goal_questions, the goal   *)
(* not being achieved, current_question_index is within range (so the      *)
(* program never ends in IndexError), and asked_questions is the set of    *)
(* the first current_question_index goal questions.                        *)
(***************************************************************************)
\* asked_questions is the set of the questions before the cursor
AskedIsPrefixSet ==
    /\ chatbot.current_question_index <= Len(chatbot.goal_questions)
    /\ chatbot.asked_questions =
           {chatbot.goal_questions[k] : k \in 1..chatbot.current_question_index}

C29_ConsoleIndexInRange ==
    /\ (chatbot.pc = "loop" /\ ~Chatbot_is_goal_achieved(chatbot)) =>
           chatbot.current_question_index < Len(chatbot.goal_questions)
    /\ chatbot.pc /= "crashed"
    /\ AskedIsPrefixSet

====
